---- MODULE Spec2Model ----
(***************************************************************************)
(* Message gateway of simple_chatbot (backend/app/api/endpoints.py, kept   *)
(* in the repository as compiled bytecode): the Socket.IO handlers         *)
(* connect, disconnect and chat_message, the connection registry they      *)
(* update and the events they emit.                                        *)
(*                                                                         *)
(* A handler runs on one asyncio event loop.  connect and disconnect are   *)
(* modelled as one step each; chat_message is two steps, split at the      *)
(* await of the response generator, where other handlers interleave.       *)
(*                                                                         *)
(* log[c] is the sequence of events the handler run c emitted, in order,   *)
(* each with the connections it was delivered to; a run is the connect or  *)
(* the disconnect of a connection, or the handling of the n-th             *)
(* chat_message.  received is the history of the chat_message events the   *)
(* gateway was handed.  An emit or the generator may raise; budget is the  *)
(* number of handler runs in which the environment may still raise (0 in   *)
(* Spec, MaxFaults in FaultSpec).  An emit that raises delivers nothing.   *)
(* The transport numbers the connections in the order they connect.  The   *)
(* clock the handlers read advances with every connect and disconnect.     *)
(*                                                                         *)
(* The browser side is the Home page (frontend/chat-app-frontend) with its *)
(* useWebSocket hook and its MessageInput.  FrontSpec is the page on its   *)
(* own, with the socket's lifecycle and a server's events as environment;  *)
(* AppSpec is the page connected to the gateway, whose handlers then run   *)
(* for what the page's socket emits and whose events reach the page in the *)
(* order of the emits.                                                     *)
(***************************************************************************)
EXTENDS Integers, Sequences, FiniteSets, TLC

\* ---------------------------------------------------------------- bounds
MaxConn == 2
MaxMsgs == 2
MaxFaults == 1
MaxOps == 10
MaxSockets == 2
MaxTextLen == 2
MaxEvents == 2
MaxList == 3

SIDs == 1..MaxConn

\* ------------------------------------------------------ program constants
\* ai_assistant_service.ai_sid: the synthetic sender of AI messages.
AI_SID == 0

WelcomeText == "Hello! I am your friendly AI assistant. Ask me anything!"

\* The pool generate_dummy_response picks its reply from; the gateway
\* forwards the reply without looking at it.
Replies == {"I see. Tell me more."}

\* The exceptions the handlers tell apart: socketio.exceptions.SocketIOError
\* and every other Exception.
ExcKinds == {"SocketIOError", "Exception"}

\* ------------------------------------------------------------------ inputs
\* The data argument of chat_message: whether it is a dict, whether the
\* dict has the key 'text', and the value under it.
NotADict == [isDict |-> FALSE, hasText |-> FALSE, text |-> ""]
NoText == [isDict |-> TRUE, hasText |-> FALSE, text |-> ""]
EmptyText == [isDict |-> TRUE, hasText |-> TRUE, text |-> ""]
SomeText == [isDict |-> TRUE, hasText |-> TRUE, text |-> "hi"]
Payloads == {NotADict, NoText, EmptyText, SomeText}

VARIABLES conn, registry, pending, received, log, clock, budget

\* The browser side: the state of one useWebSocket hook (url, the
\* onMessageReceived option, socket, status), the sockets io() returned,
\* the events on their way to the current socket, and the state of the Home
\* page that uses the hook.  forwarded and calls are the histories of the
\* calls of onMessageReceived and of sendMessage.
VARIABLES url, onMessageReceived, socket, status, mounted, sockets, inbox,
          forwarded, calls, messages, isAiResponding, isAiTyping

gateway == <<conn, registry, pending, received, log, clock, budget>>

frontend ==
    <<url, onMessageReceived, socket, status, mounted, sockets, inbox,
      forwarded, calls, messages, isAiResponding, isAiTyping>>

vars == <<gateway, frontend>>

\* The handler runs: connect and disconnect of a connection, and the
\* handling of the n-th chat_message.
ConnectRun(sid) == <<"connect", sid>>
DisconnectRun(sid) == <<"disconnect", sid>>
ChatRun(id) == <<"chat", id>>
Runs ==
    {ConnectRun(s) : s \in SIDs} \cup {DisconnectRun(s) : s \in SIDs}
        \cup {ChatRun(i) : i \in 1..MaxMsgs}

\* The connections the transport delivers to.
Open == {s \in SIDs : conn[s] = "open"}

\* --------------------------------------------------- connection registry
\* Faulty variant: register keeps the entry of an id it already holds
register_once(reg, sid, now) ==
    IF sid \in DOMAIN reg THEN reg
    ELSE [s \in (DOMAIN reg) \cup {sid} |-> IF s = sid THEN now ELSE reg[s]]

register(reg, sid, now) ==
    [s \in (DOMAIN reg) \cup {sid} |-> IF s = sid THEN now ELSE reg[s]]

deregister(reg, sid) ==
    [s \in (DOMAIN reg) \ {sid} |-> reg[s]]

\* ------------------------------------------------------------- transport
\* sio.emit(event, data, room=..., skip_sid=...): delivered to the members
\* of the room that are connected, but for the skipped one.
Emit(event, data, room, skip, members) ==
    [event |-> event, data |-> data, to |-> (room \cap members) \ skip,
     open |-> members]

\* The environment raises in this handler run (faulty) or not.
Raise(faulty) ==
    /\ faulty => budget > 0
    /\ budget' = IF faulty THEN budget - 1 ELSE budget

\* The sid the transport gives the next connection.
NextSid == 1 + Cardinality({s \in SIDs : conn[s] # "connecting"})

\* ------------------------------------------------------------ the gateway
\* await manager.connect(sid)
connect_registry(sid) == register(registry, sid, clock)

\* Faulty variant: the emits of connect without room=sid
connect_room_all(sid) == SIDs

\* room=sid of connect's three emits
connect_room(sid) == {sid}

\* Faulty variant: the 'error' emits without room=sid
error_room_all(sid) == SIDs

\* room=sid of every 'error' emit
error_room(sid) == {sid}

\* the payload of connect's 'error' emit
connect_error(sid) == [message |-> "Connection error occurred."]

\* Faulty variant: the welcome not flagged as the assistant's
ai_welcome_unflagged(now) ==
    [sender_sid |-> AI_SID, text |-> WelcomeText, timestamp |-> now, is_ai |-> FALSE]

ai_welcome(now) ==
    [sender_sid |-> AI_SID, text |-> WelcomeText, timestamp |-> now, is_ai |-> TRUE]

\* f: which of the three emits raises (0: none); ef: the 'error' emit of
\* the except block raises too and is only logged.
connect(sid, f, ef) ==
    /\ conn[sid] = "connecting"
    /\ sid = NextSid
    /\ ef => f # 0
    /\ Raise(f # 0)
    /\ LET members == Open \cup {sid}
           emits == << Emit("server_registered_sid", [sid |-> sid],
                            connect_room(sid), {}, members),
                       Emit("message", [type |-> "status", data |-> "Welcome"],
                            connect_room(sid), {}, members),
                       Emit("new_message", ai_welcome(clock),
                            connect_room(sid), {}, members) >>
           err == IF f = 0 \/ ef THEN <<>>
                  ELSE << Emit("error", connect_error(sid),
                               error_room(sid), {}, members) >>
       IN log' = [log EXCEPT ![ConnectRun(sid)] =
                      SubSeq(emits, 1, IF f = 0 THEN 3 ELSE f - 1) \o err]
    /\ conn' = [conn EXCEPT ![sid] = "open"]
    /\ registry' = connect_registry(sid)
    /\ clock' = clock + 1
    /\ UNCHANGED <<pending, received>>

\* Faulty variant: disconnect without the call of manager.disconnect
disconnect_registry_kept(sid) == registry

\* await manager.disconnect(sid)
disconnect_registry(sid) == deregister(registry, sid)

\* Faulty variant: the departure notice without skip_sid
disconnect_skip_none(sid) == {}

\* skip_sid=sid of the departure notice
disconnect_skip(sid) == {sid}

\* the departure notice
disconnect_notice(sid) == [type |-> "status", data |-> "has left"]

\* Faulty variant: the notice emitted before the call of
\* manager.disconnect, which an exception of the emit then skips
disconnect_notice_first(sid, f) ==
    /\ conn[sid] = "open"
    /\ Raise(f)
    /\ log' = [log EXCEPT ![DisconnectRun(sid)] =
                   IF f THEN <<>>
                   ELSE << Emit("message", disconnect_notice(sid),
                                SIDs, disconnect_skip(sid), Open) >>]
    /\ conn' = [conn EXCEPT ![sid] = "closed"]
    /\ registry' = IF f THEN registry ELSE disconnect_registry(sid)
    /\ clock' = clock + 1
    /\ UNCHANGED <<pending, received>>

\* The handler runs while the transport still holds the connection.
\* f: the emit raises; the except block only logs.
disconnect(sid, f) ==
    /\ conn[sid] = "open"
    /\ Raise(f)
    /\ log' = [log EXCEPT ![DisconnectRun(sid)] =
                   IF f THEN <<>>
                   ELSE << Emit("message", disconnect_notice(sid),
                                SIDs, disconnect_skip(sid), Open) >>]
    /\ conn' = [conn EXCEPT ![sid] = "closed"]
    /\ registry' = disconnect_registry(sid)
    /\ clock' = clock + 1
    /\ UNCHANGED <<pending, received>>

\* not (not isinstance(data, dict) or 'text' not in data)
IsValidPayload(data) == data.isDict /\ data.hasText

validation_error ==
    [type |-> "validation_error", message |-> "Invalid message format."]

\* Faulty variant: the user's message flagged as the assistant's
user_message_payload_ai(sid, text, now) ==
    [sender_sid |-> sid, text |-> text, timestamp |-> now, is_ai |-> TRUE]

user_message_payload(sid, text, now) ==
    [sender_sid |-> sid, text |-> text, timestamp |-> now, is_ai |-> FALSE]

\* Faulty variant: the new_message emits sent to the sender's room
broadcast_room_sender(sid) == {sid}

\* the room of the two new_message emits of chat_message: none given, so
\* every connection
broadcast_room(sid) == SIDs

\* Faulty variant: one except block for every exception
error_payload_server(kind) ==
    [type |-> "server_error",
     message |-> "A server error occurred while processing your message."]

\* except socketio.exceptions.SocketIOError / except Exception
error_payload(kind) ==
    IF kind = "SocketIOError"
    THEN [type |-> "server_error",
          message |-> "A server error occurred while processing your message."]
    ELSE [type |-> "unexpected_error",
          message |-> "An unexpected server error occurred."]

\* The except blocks of chat_message: one 'error' emit to the sender,
\* which may itself raise (ef) and is then only logged.
on_exception(sid, kind, ef) ==
    IF ef THEN <<>>
    ELSE << Emit("error", error_payload(kind), error_room(sid), {}, Open) >>

\* Faulty variant: a generator that blocks the event loop during its
\* delay, so that no chat_message is handled while a reply is pending
chat_message_blocked(sid, data, k, ef) ==
    /\ pending = {}
    /\ conn[sid] = "open"
    /\ Len(received) < MaxMsgs
    /\ ef => k # "none"
    /\ Raise(k # "none")
    /\ LET id == Len(received) + 1
           first == IF IsValidPayload(data)
                    THEN Emit("new_message", user_message_payload(sid, data.text, clock),
                              broadcast_room(sid), {}, Open)
                    ELSE Emit("error", validation_error, error_room(sid), {}, Open)
       IN /\ log' = [log EXCEPT ![ChatRun(id)] =
                         IF k = "none" THEN <<first>> ELSE on_exception(sid, k, ef)]
          /\ pending' = IF IsValidPayload(data) /\ k = "none"
                        THEN pending \cup {[id |-> id, sid |-> sid, text |-> data.text]}
                        ELSE pending
          /\ received' = Append(received,
                                [sid |-> sid, data |-> data, exc |-> k,
                                 stage |-> IF k = "none" THEN "none"
                                           ELSE IF IsValidPayload(data) THEN "echo"
                                           ELSE "validation",
                                 errLost |-> ef])
    /\ UNCHANGED <<conn, registry, clock>>

\* chat_message up to the await of the generator.  k: the exception the
\* first emit raises ("none": it succeeds).
chat_message(sid, data, k, ef) ==
    /\ conn[sid] = "open"
    /\ Len(received) < MaxMsgs
    /\ ef => k # "none"
    /\ Raise(k # "none")
    /\ LET id == Len(received) + 1
           first == IF IsValidPayload(data)
                    THEN Emit("new_message", user_message_payload(sid, data.text, clock),
                              broadcast_room(sid), {}, Open)
                    ELSE Emit("error", validation_error, error_room(sid), {}, Open)
       IN /\ log' = [log EXCEPT ![ChatRun(id)] =
                         IF k = "none" THEN <<first>> ELSE on_exception(sid, k, ef)]
          /\ pending' = IF IsValidPayload(data) /\ k = "none"
                        THEN pending \cup {[id |-> id, sid |-> sid, text |-> data.text]}
                        ELSE pending
          /\ received' = Append(received,
                                [sid |-> sid, data |-> data, exc |-> k,
                                 stage |-> IF k = "none" THEN "none"
                                           ELSE IF IsValidPayload(data) THEN "echo"
                                           ELSE "validation",
                                 errLost |-> ef])
    /\ UNCHANGED <<conn, registry, clock>>

\* ai_assistant_service.generate_dummy_response(text, sid): the message
\* the gateway broadcasts as the reply.
generate_dummy_response(text, sid, reply, now) ==
    [sender_sid |-> AI_SID, text |-> reply, timestamp |-> now, is_ai |-> TRUE]

\* chat_message from the completion of the generator on.  g: the exception
\* the generator raises; k: the exception the reply's emit raises.
\* Faulty variant: the reply whose broadcast raised is sent all the same
chat_message_resume_sent(p, reply, g, k, ef) ==
    /\ p \in pending
    /\ g # "none" => k = "none"
    /\ ef => (g # "none" \/ k # "none")
    /\ Raise(g # "none" \/ k # "none")
    /\ LET exc == IF g # "none" THEN g ELSE k
           ai_response == generate_dummy_response(p.text, p.sid, reply, clock)
       IN /\ log' = [log EXCEPT ![ChatRun(p.id)] = @ \o
                         (IF exc = "none"
                          THEN << Emit("new_message", ai_response,
                                       broadcast_room(p.sid), {}, Open) >>
                          ELSE IF g = "none"
                          THEN << Emit("new_message", ai_response,
                                       broadcast_room(p.sid), {}, Open) >>
                                   \o on_exception(p.sid, exc, ef)
                          ELSE on_exception(p.sid, exc, ef))]
          /\ received' = [received EXCEPT ![p.id].exc = exc,
                                          ![p.id].stage = IF g # "none" THEN "generate"
                                                          ELSE IF k # "none" THEN "reply"
                                                          ELSE "none",
                                          ![p.id].errLost = ef]
    /\ pending' = pending \ {p}
    /\ UNCHANGED <<conn, registry, clock>>

chat_message_resume(p, reply, g, k, ef) ==
    /\ p \in pending
    /\ g # "none" => k = "none"
    /\ ef => (g # "none" \/ k # "none")
    /\ Raise(g # "none" \/ k # "none")
    /\ LET exc == IF g # "none" THEN g ELSE k
           ai_response == generate_dummy_response(p.text, p.sid, reply, clock)
       IN /\ log' = [log EXCEPT ![ChatRun(p.id)] = @ \o
                         (IF exc = "none"
                          THEN << Emit("new_message", ai_response,
                                       broadcast_room(p.sid), {}, Open) >>
                          ELSE on_exception(p.sid, exc, ef))]
          /\ received' = [received EXCEPT ![p.id].exc = exc,
                                          ![p.id].stage = IF g # "none" THEN "generate"
                                                          ELSE IF k # "none" THEN "reply"
                                                          ELSE "none",
                                          ![p.id].errLost = ef]
    /\ pending' = pending \ {p}
    /\ UNCHANGED <<conn, registry, clock>>

\* ------------------------------------------------------ the browser side
\* process.env.NEXT_PUBLIC_WEBSOCKET_URL || 'ws://localhost:8000/ws/chat'
WEBSOCKET_URL == "ws://localhost:8000/ws/chat"

\* The urls the hook is rendered with: none, the page's, another one.
\* null, passed for the URL: a value of its own, falsy as the empty string
Null == "<null>"

\* !url
NoUrl(u) == u = "" \/ u = Null

Urls == {"", Null, WEBSOCKET_URL, "ws://localhost:8000/test"}

\* What the user types: a sequence of characters.
Chars == {" ", "h"}
Typed == UNION {[1..n -> Chars] : n \in 0..MaxTextLen}

\* String.prototype.trim
RECURSIVE trimStart(_)
trimStart(t) ==
    IF t = <<>> \/ Head(t) # " " THEN t ELSE trimStart(Tail(t))

RECURSIVE trimEnd(_)
trimEnd(t) ==
    IF t = <<>> \/ t[Len(t)] # " " THEN t ELSE trimEnd(SubSeq(t, 1, Len(t) - 1))

trim(t) == trimEnd(trimStart(t))

\* JavaScript values: an object is a record, and a field it does not have
\* reads undefined; undefined and the empty string are falsy.  A plain
\* string is [str |-> its characters], an array [items |-> its elements].
Undefined == [undefined |-> TRUE]

Has(o, f) == f \in DOMAIN o

Truthy(v) == v # "" /\ v # <<>>

\* The same of a value held as a string, such as a sender.
TruthyString(v) == v # ""

\* io(url): a socket that is not connected yet.  emitted is what was
\* passed to its emit, disconnects the number of calls of its disconnect,
\* last its latest lifecycle event, sid the connection the gateway holds
\* for it.
io(u) ==
    [url |-> u, connected |-> FALSE, closed |-> FALSE, emitted |-> <<>>,
     disconnects |-> 0, last |-> "none", sid |-> 0]

\* newSocket.disconnect(): a connected socket fires 'disconnect'.
socket_disconnect(s) ==
    [s EXCEPT !.connected = FALSE, !.closed = TRUE, !.disconnects = @ + 1,
              !.last = IF s.connected THEN "disconnect" ELSE @]

\* Faulty variant: the page's effect on status without the 'error' case
resets_disconnected(s) == s = "disconnected"

\* Home's effect on [status]:
\* if (status === 'disconnected' || status === 'error')
resets(s) == s = "disconnected" \/ s = "error"

\* setStatus(s) and the render that follows: Home's effect runs when the
\* status has changed.
setStatus(s) ==
    /\ status' = s
    /\ IF s # status /\ resets(s)
       THEN isAiResponding' = FALSE /\ isAiTyping' = FALSE
       ELSE UNCHANGED <<isAiResponding, isAiTyping>>

\* The sockets after the cleanup of the effect, which exists when the
\* effect made a socket.
\* Faulty variant: disconnect called twice
cleanup_twice(socks, sock) ==
    IF sock = 0 THEN socks
    ELSE [socks EXCEPT ![sock] = socket_disconnect(socket_disconnect(@))]

cleanup(socks, sock) ==
    IF sock = 0 THEN socks ELSE [socks EXCEPT ![sock] = socket_disconnect(@)]

\* The first render of the hook with url u and its effect; cb: the
\* onMessageReceived option is given.
Page(u, cb) ==
    /\ url = u
    /\ onMessageReceived = cb
    /\ mounted = TRUE
    /\ status = "connecting"
    /\ sockets = IF NoUrl(u) THEN <<>> ELSE <<io(u)>>
    /\ socket = IF NoUrl(u) THEN 0 ELSE 1
    /\ inbox = <<>>
    /\ forwarded = <<>>
    /\ calls = <<>>
    /\ messages = <<>>
    /\ isAiResponding = FALSE
    /\ isAiTyping = FALSE

\* A render with another url: the cleanup of the effect before, then the
\* effect, in one commit.
\* Faulty variant: only the empty string taken for no URL
render_strict(u) ==
    /\ mounted
    /\ u # url
    /\ u # "" => Len(sockets) < MaxSockets
    /\ url' = u
    /\ IF u = ""
       THEN /\ sockets' = cleanup(sockets, socket)
            /\ socket' = 0
            /\ setStatus(IF socket = 0 THEN status ELSE "disconnected")
       ELSE /\ sockets' = Append(cleanup(sockets, socket), io(u))
            /\ socket' = Len(sockets) + 1
            /\ setStatus("connecting")
    /\ inbox' = <<>>
    /\ UNCHANGED <<onMessageReceived, mounted, forwarded, calls, messages>>

render(u) ==
    /\ mounted
    /\ u # url
    /\ ~NoUrl(u) => Len(sockets) < MaxSockets
    /\ url' = u
    /\ IF NoUrl(u)
       THEN /\ sockets' = cleanup(sockets, socket)
            /\ socket' = 0
            /\ setStatus(IF socket = 0 THEN status ELSE "disconnected")
       ELSE /\ sockets' = Append(cleanup(sockets, socket), io(u))
            /\ socket' = Len(sockets) + 1
            /\ setStatus("connecting")
    /\ inbox' = <<>>
    /\ UNCHANGED <<onMessageReceived, mounted, forwarded, calls, messages>>

\* The cleanup of the effect when the component goes away.
unmount ==
    /\ mounted
    /\ mounted' = FALSE
    /\ sockets' = cleanup(sockets, socket)
    /\ socket' = IF socket = 0 THEN socket ELSE 0
    /\ status' = IF socket = 0 THEN status ELSE "disconnected"
    /\ inbox' = <<>>
    /\ UNCHANGED <<url, onMessageReceived, forwarded, calls, messages,
                   isAiResponding, isAiTyping>>

\* Faulty variant: 'connect_error' treated as a disconnect
lifecycle_status_two(ev) ==
    IF ev = "connect" THEN "connected" ELSE "disconnected"

\* newSocket.on('connect' | 'disconnect' | 'connect_error', ...)
lifecycle_status(ev) ==
    CASE ev = "connect" -> "connected"
      [] ev = "disconnect" -> "disconnected"
      [] ev = "connect_error" -> "error"

\* The socket the listeners of the hook are on, while it is in use.
Live == mounted /\ socket # 0 /\ ~sockets[socket].closed

on_connect ==
    /\ Live
    /\ ~sockets[socket].connected
    /\ sockets' = [sockets EXCEPT ![socket].connected = TRUE,
                                  ![socket].last = "connect"]
    /\ setStatus(lifecycle_status("connect"))
    /\ UNCHANGED <<url, onMessageReceived, socket, mounted, inbox, forwarded,
                   calls, messages>>

\* The events on their way to the socket are lost with the connection.
on_disconnect ==
    /\ Live
    /\ sockets[socket].connected
    /\ sockets' = [sockets EXCEPT ![socket].connected = FALSE,
                                  ![socket].last = "disconnect"]
    /\ setStatus(lifecycle_status("disconnect"))
    /\ inbox' = <<>>
    /\ UNCHANGED <<url, onMessageReceived, socket, mounted, forwarded, calls,
                   messages>>

on_connect_error ==
    /\ Live
    /\ ~sockets[socket].connected
    /\ sockets' = [sockets EXCEPT ![socket].last = "connect_error"]
    /\ setStatus(lifecycle_status("connect_error"))
    /\ UNCHANGED <<url, onMessageReceived, socket, mounted, inbox, forwarded,
                   calls, messages>>

\* Faulty variant: sendMessage without the test of socket.connected
sendMessage_unchecked(event, message) ==
    /\ calls' = Append(calls, [event |-> event, message |-> message])
    /\ IF socket # 0
       THEN sockets' = [sockets EXCEPT ![socket].emitted =
                            Append(@, [event |-> event, message |-> message])]
       ELSE sockets' = sockets

\* sendMessage of the hook: emit on a connected socket, else only an
\* error on the console.
sendMessage(event, message) ==
    /\ calls' = Append(calls, [event |-> event, message |-> message])
    /\ IF socket # 0 /\ sockets[socket].connected
       THEN sockets' = [sockets EXCEPT ![socket].emitted =
                            Append(@, [event |-> event, message |-> message])]
       ELSE sockets' = sockets

\* Faulty variant: the first argument, however many there are
event_data_first(args) ==
    IF Len(args) >= 1 THEN args[1] ELSE Undefined

\* data: args.length > 1 ? args : args[0]
event_data(args) ==
    IF Len(args) > 1 THEN [items |-> args]
    ELSE IF Len(args) = 1 THEN args[1] ELSE Undefined

\* prevMessages.map(m => (m.status === 'sending' ? {...m, status: 'sent'} : m))
markSent(ms) ==
    [i \in DOMAIN ms |->
        IF Has(ms[i], "status") /\ ms[i].status = "sending"
        THEN [ms[i] EXCEPT !.status = "sent"] ELSE ms[i]]

\* Faulty variant: the gateway's new_message appended too, under the
\* sender its is_ai flag tells
appended_echo(ms, msg) ==
    IF /\ Has(msg, "event") /\ msg.event = "new_message"
       /\ Has(msg, "data") /\ msg.data # Undefined
       /\ Has(msg.data, "text") /\ Has(msg.data, "is_ai")
       /\ IF msg.data.is_ai THEN TruthyString(msg.data.text)
          ELSE Truthy(msg.data.text)
    THEN Append(ms, [text |-> msg.data.text,
                     sender |-> IF msg.data.is_ai THEN "ai" ELSE "user"])
    ELSE IF /\ Has(msg, "event") /\ msg.event = "chat_message"
            /\ Has(msg, "data") /\ msg.data # Undefined
            /\ Has(msg.data, "text") /\ Truthy(msg.data.text)
    THEN Append(ms, [text |-> msg.data.text, sender |-> "ai"])
    ELSE IF Has(msg, "str")
    THEN Append(ms, [text |-> msg.str, sender |-> "ai"])
    ELSE IF /\ Has(msg, "text") /\ Truthy(msg.text)
            /\ Has(msg, "sender") /\ TruthyString(msg.sender)
    THEN Append(ms, [text |-> msg.text, sender |-> msg.sender])
    ELSE ms

\* Faulty variant: an object's message appended as the assistant's
appended_ai(ms, msg) ==
    IF /\ Has(msg, "event") /\ msg.event = "chat_message"
       /\ Has(msg, "data") /\ msg.data # Undefined
       /\ Has(msg.data, "text") /\ Truthy(msg.data.text)
    THEN Append(ms, [text |-> msg.data.text, sender |-> "ai"])
    ELSE IF Has(msg, "str")
    THEN Append(ms, [text |-> msg.str, sender |-> "ai"])
    ELSE IF /\ Has(msg, "text") /\ Truthy(msg.text)
            /\ Has(msg, "sender") /\ TruthyString(msg.sender)
    THEN Append(ms, [text |-> msg.text, sender |-> "ai"])
    ELSE ms

\* The three shapes handleMessageReceived appends a message for.  The id
\* of a message, a time stamp used as the key of its list item, is left
\* out.
appended(ms, msg) ==
    IF /\ Has(msg, "event") /\ msg.event = "chat_message"
       /\ Has(msg, "data") /\ msg.data # Undefined
       /\ Has(msg.data, "text") /\ Truthy(msg.data.text)
    THEN Append(ms, [text |-> msg.data.text, sender |-> "ai"])
    ELSE IF Has(msg, "str")
    THEN Append(ms, [text |-> msg.str, sender |-> "ai"])
    ELSE IF /\ Has(msg, "text") /\ Truthy(msg.text)
            /\ Has(msg, "sender") /\ TruthyString(msg.sender)
    THEN Append(ms, [text |-> msg.text, sender |-> msg.sender])
    ELSE ms

handleMessageReceived(msg) ==
    /\ isAiResponding' = FALSE
    /\ isAiTyping' = FALSE
    /\ messages' = appended(markSent(messages), msg)

\* The values the callback of the page is called with when it is called
\* directly, as its tests do: plain strings, objects with a text and a
\* sender, with an empty text, without a sender, and two values of the
\* shape the hook forwards.
Msgs ==
    << [str |-> <<"h">>],
       [str |-> <<>>],
       [text |-> <<"h">>, sender |-> "ai"],
       [text |-> <<"h", "h">>, sender |-> "user"],
       [text |-> <<>>, sender |-> "ai"],
       [text |-> <<"h">>],
       [event |-> "new_message",
        data |-> generate_dummy_response(<<"h">>, 1, "I see. Tell me more.", 0)],
       [event |-> "chat_message", data |-> [text |-> <<"h">>]] >>

\* The callback Home passes to the hook, called with msg.
capturedOnMessageReceived(msg) ==
    /\ mounted
    /\ onMessageReceived
    /\ Len(messages) < MaxList
    /\ handleMessageReceived(msg)
    /\ UNCHANGED <<url, onMessageReceived, socket, status, mounted, sockets,
                   inbox, forwarded, calls>>

\* The onAny listener of the hook, there when onMessageReceived was given:
\* the next event the socket receives.  A socket delivers events while it
\* is connected.
onAny ==
    /\ Live
    /\ sockets[socket].connected
    /\ inbox # <<>>
    /\ inbox' = Tail(inbox)
    /\ IF onMessageReceived
       THEN LET msg == [event |-> Head(inbox).event,
                        data |-> event_data(Head(inbox).args)]
            IN /\ forwarded' = Append(forwarded, msg)
               /\ handleMessageReceived(msg)
       ELSE UNCHANGED <<forwarded, messages, isAiResponding, isAiTyping>>
    /\ UNCHANGED <<url, onMessageReceived, socket, status, mounted, sockets, calls>>

\* Faulty variant: the message appended as already sent
handleSendMessage_sent(text) ==
    /\ messages' = Append(messages,
                          [text |-> text, sender |-> "user", status |-> "sent"])
    /\ isAiResponding' = TRUE
    /\ sendMessage("chat_message", [text |-> text])
    /\ isAiTyping' = TRUE
    /\ UNCHANGED <<url, onMessageReceived, socket, status, mounted, inbox, forwarded>>

handleSendMessage(text) ==
    /\ messages' = Append(messages,
                          [text |-> text, sender |-> "user", status |-> "sending"])
    /\ isAiResponding' = TRUE
    /\ sendMessage("chat_message", [text |-> text])
    /\ isAiTyping' = TRUE
    /\ UNCHANGED <<url, onMessageReceived, socket, status, mounted, inbox, forwarded>>

\* handleSubmit of MessageInput, whose input and button are disabled while
\* isAiResponding: if (text.trim()) onSendMessage(text.trim())
handleSubmit(text) ==
    /\ mounted
    /\ ~isAiResponding
    /\ Len(calls) < MaxMsgs
    /\ trim(text) # <<>>
    /\ handleSendMessage(trim(text))

\* The events a server sends, by their shape: one of the gateway's, an
\* event named chat_message, an event with two arguments, one with none.
ServerEvents ==
    << [event |-> "new_message",
        args |-> << generate_dummy_response(<<"h">>, 1, "I see. Tell me more.", 0) >>],
       [event |-> "chat_message", args |-> << [text |-> <<"h">>] >>],
       [event |-> "multi_arg_event",
        args |-> << [text |-> <<"h">>], [type |-> "greeting"] >>],
       [event |-> "ping", args |-> <<>>] >>

\* A server event arrives at the connected socket.
server_event(e) ==
    /\ Live
    /\ sockets[socket].connected
    /\ Len(forwarded) + Len(inbox) < MaxEvents
    /\ inbox' = Append(inbox, e)
    /\ UNCHANGED <<url, onMessageReceived, socket, status, mounted, sockets,
                   forwarded, calls, messages, isAiResponding, isAiTyping>>

\* ---------------------------------------------------------- specification
\* No page is open.
NoPage ==
    /\ url = ""
    /\ onMessageReceived = FALSE
    /\ mounted = FALSE
    /\ status = "connecting"
    /\ sockets = <<>>
    /\ socket = 0
    /\ inbox = <<>>
    /\ forwarded = <<>>
    /\ calls = <<>>
    /\ messages = <<>>
    /\ isAiResponding = FALSE
    /\ isAiTyping = FALSE

Start ==
    /\ conn = [s \in SIDs |-> "connecting"]
    /\ registry = <<>>
    /\ pending = {}
    /\ received = <<>>
    /\ log = [c \in Runs |-> <<>>]
    /\ clock = 0

Init == Start /\ budget = 0 /\ NoPage

FaultInit == Start /\ budget = MaxFaults /\ NoPage

\* The event loop resumes a handler whose generator has completed.
Resume ==
    \E p \in pending, reply \in Replies, g \in ExcKinds \cup {"none"},
       k \in ExcKinds \cup {"none"}, ef \in BOOLEAN :
        chat_message_resume(p, reply, g, k, ef)

Next ==
    \/ /\ \E sid \in SIDs, f \in 0..3, ef \in BOOLEAN : connect(sid, f, ef)
       /\ UNCHANGED frontend
    \/ /\ \E sid \in SIDs, f \in BOOLEAN : disconnect(sid, f)
       /\ UNCHANGED frontend
    \/ /\ \E sid \in SIDs, data \in Payloads, k \in ExcKinds \cup {"none"}, ef \in BOOLEAN :
              chat_message(sid, data, k, ef)
       /\ UNCHANGED frontend
    \/ /\ Resume
       /\ UNCHANGED frontend

\* The environment raises nothing.
Spec == Init /\ [][Next]_vars

\* The environment raises in up to MaxFaults handler runs.
FaultSpec == FaultInit /\ [][Next]_vars

\* The event loop resumes every handler whose generator has completed.
LiveSpec == Spec /\ WF_vars(Resume /\ UNCHANGED frontend)

\* The registry on its own: register called for any id, registered or
\* not, at successive times.
RegistryRegister(sid) ==
    /\ clock < MaxOps
    /\ registry' = register(registry, sid, clock)
    /\ clock' = clock + 1
    /\ UNCHANGED <<conn, pending, received, log, budget, frontend>>

RegistryNext == \E sid \in SIDs : RegistryRegister(sid)

RegistrySpec == Init /\ [][RegistryNext]_vars

\* The page and its hook on their own: the user submits, the hook is
\* rendered with another url or goes away, the socket connects, fails and
\* disconnects, and a server sends events.
FrontInit ==
    /\ Start
    /\ budget = 0
    /\ \E u \in Urls, cb \in BOOLEAN : Page(u, cb)

FrontNext ==
    \/ /\ \E u \in Urls : render(u)
       /\ UNCHANGED gateway
    \/ /\ unmount
       /\ UNCHANGED gateway
    \/ /\ on_connect
       /\ UNCHANGED gateway
    \/ /\ on_disconnect
       /\ UNCHANGED gateway
    \/ /\ on_connect_error
       /\ UNCHANGED gateway
    \/ /\ \E i \in DOMAIN ServerEvents : server_event(ServerEvents[i])
       /\ UNCHANGED gateway
    \/ /\ onAny
       /\ UNCHANGED gateway
    \/ /\ \E text \in Typed : handleSubmit(text)
       /\ UNCHANGED gateway

FrontSpec == FrontInit /\ [][FrontNext]_vars

\* The page with its callback called directly: the user submits and the
\* callback is called with any of Msgs.
PageInit ==
    /\ Start
    /\ budget = 0
    /\ Page(WEBSOCKET_URL, TRUE)

PageNext ==
    \/ /\ \E text \in Typed : handleSubmit(text)
       /\ UNCHANGED gateway
    \/ /\ \E i \in DOMAIN Msgs : capturedOnMessageReceived(Msgs[i])
       /\ UNCHANGED gateway

PageSpec == PageInit /\ [][PageNext]_vars

\* The page against the gateway.  The connection the gateway holds for
\* the page's socket (0: none):
ClientSid == IF socket = 0 THEN 0 ELSE sockets[socket].sid

\* The events the gateway emits in a step: what the log of the handler
\* run gained.
Emitted ==
    LET changed == {c \in Runs : log'[c] # log[c]}
    IN IF changed = {} THEN <<>>
       ELSE LET c == CHOOSE c \in changed : TRUE
            IN SubSeq(log'[c], Len(log[c]) + 1, Len(log'[c]))

\* Of these, the ones delivered to connection sid, as the socket of that
\* connection receives them: the event and its one argument.
Packets(es, sid) ==
    LET mine == SelectSeq(es, LAMBDA e : sid \in e.to)
    IN [i \in 1..Len(mine) |-> [event |-> mine[i].event, args |-> << mine[i].data >>]]

\* The gateway's events reach the page's socket in the order of the emits.
Downlink(sid) ==
    /\ inbox' = inbox \o Packets(Emitted, sid)
    /\ UNCHANGED <<url, onMessageReceived, socket, status, mounted, forwarded,
                   calls, messages, isAiResponding, isAiTyping>>

\* The number of chat_message events of the page's socket the gateway was
\* handed.
Handed == Cardinality({i \in 1..Len(received) : received[i].sid = ClientSid})

\* The data argument the gateway gets for an emitted message.
Uplink(message) ==
    [isDict |-> TRUE, hasText |-> Has(message, "text"), text |-> message.text]

\* The transport connects the page's socket and the connect handler runs.
transport_connect(sid) ==
    /\ Live
    /\ sockets[socket].sid = 0
    /\ connect(sid, 0, FALSE)
    /\ sockets' = [sockets EXCEPT ![socket].sid = sid]
    /\ Downlink(sid)

\* The socket learns that it is connected.
transport_connected ==
    /\ ClientSid # 0
    /\ on_connect
    /\ UNCHANGED gateway

\* The gateway handles the next chat_message the page's socket emitted.
transport_chat_message ==
    /\ ClientSid # 0
    /\ Handed < Len(sockets[socket].emitted)
    /\ LET m == sockets[socket].emitted[Handed + 1]
       IN /\ m.event = "chat_message"
          /\ chat_message(ClientSid, Uplink(m.message), "none", FALSE)
    /\ sockets' = sockets
    /\ Downlink(ClientSid)

\* Another user connects.
other_connect(sid) ==
    /\ connect(sid, 0, FALSE)
    /\ sockets' = sockets
    /\ Downlink(ClientSid)

\* Another user sends a message.
other_chat_message(sid) ==
    /\ sid # ClientSid
    /\ chat_message(sid, Uplink([text |-> <<"h">>]), "none", FALSE)
    /\ sockets' = sockets
    /\ Downlink(ClientSid)

\* A handler whose generator has completed goes on.
transport_resume ==
    /\ \E p \in pending, reply \in Replies :
           chat_message_resume(p, reply, "none", "none", FALSE)
    /\ sockets' = sockets
    /\ Downlink(ClientSid)

AppInit ==
    /\ Start
    /\ budget = 0
    /\ Page(WEBSOCKET_URL, TRUE)

AppNext ==
    \/ \E sid \in SIDs : transport_connect(sid)
    \/ transport_connected
    \/ \E sid \in SIDs : other_connect(sid)
    \/ /\ \E text \in Typed : handleSubmit(text)
       /\ UNCHANGED gateway
    \/ transport_chat_message
    \/ \E sid \in SIDs : other_chat_message(sid)
    \/ transport_resume
    \/ /\ onAny
       /\ UNCHANGED gateway

\* The page stays open and connected, and nothing fails.
AppSpec == AppInit /\ [][AppNext]_vars

\* ------------------------------------------------------------ properties
ChatIds == 1..Len(received)

\* The handling of message id has run to its end.
Handled(id) == id \in ChatIds /\ \A p \in pending : p.id # id

NewMessages(c) == SelectSeq(log[c], LAMBDA e : e.event = "new_message")

Errors(c) == SelectSeq(log[c], LAMBDA e : e.event = "error")

\* A payload the specification calls valid: a structured value with a
\* non-empty text.
HasNonEmptyText(data) == data.isDict /\ data.hasText /\ data.text # ""

IsUserMessage(e, sid, text) ==
    /\ e.event = "new_message"
    /\ e.data.is_ai = FALSE
    /\ e.data.sender_sid = sid
    /\ e.data.text = text

IsAiMessage(e) ==
    /\ e.event = "new_message"
    /\ e.data.is_ai = TRUE

\* C1 (safety part): the handling of a chat_message with a non-empty text
\* emits first one user message (is_ai false, sender the submitting
\* connection) to every open connection, the sender among them, then,
\* once the generator has completed, one AI message (is_ai true) to every
\* open connection, and nothing else.
C1_EchoThenReplyInv ==
    \A id \in ChatIds :
        LET m == received[id]
            es == log[ChatRun(id)]
        IN HasNonEmptyText(m.data) =>
               /\ Len(es) = IF Handled(id) THEN 2 ELSE 1
               /\ IsUserMessage(es[1], m.sid, m.data.text)
               /\ es[1].to = es[1].open
               /\ m.sid \in es[1].to
               /\ Handled(id) => (IsAiMessage(es[2]) /\ es[2].to = es[2].open)

\* C1: for every chat_message with a non-empty text the gateway broadcasts
\* exactly one user message and afterwards exactly one AI message; the
\* reply always comes, and always after the user message.
C1_EchoThenReply ==
    /\ []C1_EchoThenReplyInv
    /\ \A id \in 1..MaxMsgs :
           (id \in ChatIds /\ HasNonEmptyText(received[id].data))
               ~> (Len(NewMessages(ChatRun(id))) = 2)

\* C1 witness: a message with a non-empty text was handled to its end
\* while a second connection was open; both received the user message.
C1_Witness ==
    \E id \in ChatIds :
        /\ HasNonEmptyText(received[id].data)
        /\ Handled(id)
        /\ Len(NewMessages(ChatRun(id))) = 2
        /\ Cardinality(log[ChatRun(id)][1].to) >= 2

\* C2: a chat_message whose payload is not a structured value, has no
\* text or has an empty text causes no new_message, and its sender gets
\* exactly one error event, of type validation_error.
C2_InvalidRejected ==
    \A id \in ChatIds :
        LET m == received[id]
            errs == Errors(ChatRun(id))
        IN ~HasNonEmptyText(m.data) =>
               /\ NewMessages(ChatRun(id)) = <<>>
               /\ Len(errs) = 1
               /\ errs[1].data.type = "validation_error"
               /\ errs[1].to = {m.sid}

\* C3: every new_message the gateway has emitted (user message, AI reply
\* or welcome) has a non-empty text.
C3_NonEmptyText ==
    \A c \in Runs :
        \A i \in DOMAIN log[c] :
            log[c][i].event = "new_message" => log[c][i].data.text # ""

RECURSIVE SumOver(_, _)
SumOver(f, S) ==
    IF S = {} THEN 0
    ELSE LET x == CHOOSE y \in S : TRUE
         IN f[x] + SumOver(f, S \ {x})

\* C4: when no reply is pending, every submission with a non-empty text
\* has its own user message followed by its own AI reply, and the
\* new_messages caused by submissions number twice the valid submissions.
C4_TwoPerValidSubmission ==
    pending = {} =>
        /\ \A id \in ChatIds :
               HasNonEmptyText(received[id].data) =>
                   /\ Len(log[ChatRun(id)]) = 2
                   /\ IsUserMessage(log[ChatRun(id)][1], received[id].sid,
                                    received[id].data.text)
                   /\ IsAiMessage(log[ChatRun(id)][2])
        /\ SumOver([id \in ChatIds |-> Len(NewMessages(ChatRun(id)))], ChatIds)
               = 2 * Cardinality({id \in ChatIds : HasNonEmptyText(received[id].data)})

\* C5: a connection that has connected was sent exactly one
\* server_registered_sid carrying its own sid and exactly one AI welcome
\* new_message; every event of its connect went to it alone, and no other
\* handler emits server_registered_sid.
C5_ConnectGreeting ==
    /\ \A s \in SIDs :
           conn[s] # "connecting" =>
               LET es == log[ConnectRun(s)]
                   acks == SelectSeq(es, LAMBDA e : e.event = "server_registered_sid")
                   news == NewMessages(ConnectRun(s))
               IN /\ Len(acks) = 1
                  /\ acks[1].data.sid = s
                  /\ Len(news) = 1
                  /\ news[1].data.is_ai = TRUE
                  /\ \A i \in DOMAIN es : es[i].to = {s}
    /\ \A c \in Runs :
           \A i \in DOMAIN log[c] :
               log[c][i].event = "server_registered_sid" => c[1] = "connect"

\* C5 witness: a connection connected while another one was open, and
\* was greeted alone.
C5_Witness ==
    \E s \in SIDs :
        /\ conn[s] = "open"
        /\ Len(log[ConnectRun(s)]) = 3
        /\ \A i \in 1..3 :
               /\ log[ConnectRun(s)][i].to = {s}
               /\ Cardinality(log[ConnectRun(s)][i].open) >= 2

Failed(id) ==
    /\ id \in ChatIds
    /\ IsValidPayload(received[id].data)
    /\ received[id].exc # "none"

C7_ErrorToSenderInv ==
    \A id \in ChatIds :
        Failed(id) =>
            LET errs == Errors(ChatRun(id))
            IN /\ Len(errs) = IF received[id].errLost THEN 0 ELSE 1
               /\ \A i \in DOMAIN errs :
                      /\ errs[i].to \subseteq {received[id].sid}
                      /\ errs[i].to = errs[i].open \cap {received[id].sid}
                      /\ errs[i].data.type =
                             IF received[id].exc = "SocketIOError"
                             THEN "server_error" ELSE "unexpected_error"

\* A step of the handling of a chat_message.
ChatStep == received' # received \/ pending' # pending

Originator(c) == IF c[1] = "chat" THEN received[c[2]].sid ELSE c[2]

\* C8: every error event is delivered to no connection but the one whose
\* event caused it.
C8_ErrorsPrivate ==
    \A c \in Runs :
        \A i \in DOMAIN log[c] :
            log[c][i].event = "error" => log[c][i].to \subseteq {Originator(c)}

\* C8 witness: a validation error and an error caused by an exception
\* were each delivered to their originator while another connection was
\* open.
C8_Witness ==
    /\ \E id \in ChatIds :
           /\ ~IsValidPayload(received[id].data)
           /\ Len(Errors(ChatRun(id))) = 1
           /\ Errors(ChatRun(id))[1].data.type = "validation_error"
           /\ Errors(ChatRun(id))[1].to = {received[id].sid}
           /\ Cardinality(Errors(ChatRun(id))[1].open) >= 2
    /\ \E c \in Runs :
           /\ Len(Errors(c)) = 1
           /\ ("type" \in DOMAIN Errors(c)[1].data =>
                   Errors(c)[1].data.type # "validation_error")
           /\ Errors(c)[1].to = {Originator(c)}
           /\ Cardinality(Errors(c)[1].open) >= 2

\* C9: every error event carries a type and a message, and the type is
\* validation_error, server_error or unexpected_error.
C9_ErrorShape ==
    \A c \in Runs :
        \A i \in DOMAIN log[c] :
            log[c][i].event = "error" =>
                /\ {"type", "message"} \subseteq DOMAIN log[c][i].data
                /\ log[c][i].data.type \in
                       {"validation_error", "server_error", "unexpected_error"}

\* C10: the registry holds exactly the connections that have connected
\* and not disconnected.
C10_RegistryTracksOpen == DOMAIN registry = Open

\* C10 witness: after a chat_message was handled, one connection has
\* left and is gone from the registry, and another is open and in it.
C10_Witness ==
    /\ \E s \in SIDs : conn[s] = "closed" /\ s \notin DOMAIN registry
    /\ \E s \in SIDs : conn[s] = "open" /\ s \in DOMAIN registry
    /\ \E id \in ChatIds : Handled(id)

\* C11 (state part): a connection that has disconnected is gone from the
\* registry, whether its departure notice was emitted or the emit raised.
C11_DisconnectCompletesInv ==
    \A s \in SIDs : conn[s] = "closed" => s \notin DOMAIN registry

\* C11: the state part, and the step that disconnects a connection, also
\* when its notice raises, removes it from the registry and leaves every
\* other connection, every other registry entry, the pending replies and
\* the events of every other handler run as they were.
C11_DisconnectCompletes ==
    /\ []C11_DisconnectCompletesInv
    /\ [][\A s \in SIDs :
              (conn[s] = "open" /\ conn'[s] = "closed") =>
                  /\ s \notin DOMAIN registry'
                  /\ \A t \in SIDs \ {s} :
                         /\ conn'[t] = conn[t]
                         /\ t \in DOMAIN registry =>
                                (t \in DOMAIN registry' /\ registry'[t] = registry[t])
                  /\ pending' = pending
                  /\ received' = received
                  /\ \A c \in Runs \ {DisconnectRun(s)} : log'[c] = log[c]]_vars

\* C11 witness: the departure notice of a connection raised; the
\* connection is closed and gone from the registry, and another one is
\* still open and registered.
C11_Witness ==
    \E s \in SIDs, t \in SIDs :
        /\ conn[s] = "closed"
        /\ log[DisconnectRun(s)] = <<>>
        /\ s \notin DOMAIN registry
        /\ conn[t] = "open"
        /\ t \in DOMAIN registry

\* C12 (state part): while a reply is pending, a chat_message of any other
\* open connection can be handled at once.
C12_OthersNotBlocked ==
    \A p \in pending :
        \A s \in Open \ {p.sid} :
            Len(received) < MaxMsgs =>
                ENABLED chat_message(s, SomeText, "none", FALSE)

\* C12: the state part, and a chat_message handled while a reply is
\* pending has its user message emitted while that reply is still to come.
C12_NoWaitingForAnotherReply ==
    /\ []C12_OthersNotBlocked
    /\ [][\A p \in pending :
              (Len(received') > Len(received)
                   /\ IsValidPayload(received'[Len(received')].data)) =>
                  /\ p \in pending'
                  /\ Len(log'[ChatRun(p.id)]) = 1
                  /\ Len(log'[ChatRun(Len(received'))]) = 1
                  /\ log'[ChatRun(Len(received'))][1].event = "new_message"]_vars

\* C12 witness: the reply to one connection's message is pending and the
\* user message of another connection, received later, is already out.
C12_Witness ==
    \E p \in pending :
        \E id \in ChatIds :
            /\ id > p.id
            /\ received[id].sid # p.sid
            /\ Len(log[ChatRun(p.id)]) = 1
            /\ Len(log[ChatRun(id)]) >= 1
            /\ IsUserMessage(log[ChatRun(id)][1], received[id].sid,
                             received[id].data.text)

\* C13: the step that completes the handling of a message whose sender
\* has disconnected emits the AI reply to exactly the connections open at
\* that moment, the sender not among them, and changes no connection.
C13_ReplyAfterSenderLeft ==
    [][\A p \in pending :
           (p \notin pending' /\ conn[p.sid] = "closed") =>
               LET es == log'[ChatRun(p.id)]
               IN /\ Len(es) = 2
                  /\ IsAiMessage(es[2])
                  /\ es[2].to = Open
                  /\ p.sid \notin es[2].to
                  /\ conn' = conn
                  /\ registry' = registry]_vars

\* C13 witness: a message was handled to its end; its sender received the
\* user message and had left by the time of the reply, which another
\* connection received.
C13_Witness ==
    \E id \in ChatIds :
        /\ Handled(id)
        /\ Len(log[ChatRun(id)]) = 2
        /\ received[id].sid \in log[ChatRun(id)][1].to
        /\ conn[received[id].sid] = "closed"
        /\ IsAiMessage(log[ChatRun(id)][2])
        /\ received[id].sid \notin log[ChatRun(id)][2].to
        /\ log[ChatRun(id)][2].to # {}

\* C14: in every emitted new_message is_ai is true exactly when sender_sid
\* is the AI marker; a user message carries the sid of the submitting
\* connection and is_ai false, a welcome and a reply carry the AI marker
\* and is_ai true.
C14_AiFlagMatchesSender ==
    \A c \in Runs :
        \A i \in DOMAIN log[c] :
            LET e == log[c][i]
            IN e.event = "new_message" =>
                   /\ e.data.is_ai = (e.data.sender_sid = AI_SID)
                   /\ c[1] = "connect" => e.data.is_ai
                   /\ (c[1] = "chat" /\ i = 1) =>
                          (~e.data.is_ai /\ e.data.sender_sid = received[c[2]].sid)
                   /\ (c[1] = "chat" /\ i = 2) => e.data.is_ai

\* C14 witness: a welcome, a user message and an AI reply have been
\* emitted.
C14_Witness ==
    /\ \E s \in SIDs : Len(NewMessages(ConnectRun(s))) = 1
    /\ \E id \in ChatIds : Len(NewMessages(ChatRun(id))) = 2

\* C15: register called for an id the registry already holds leaves the
\* registry with the same ids, one entry for that id, carrying the time of
\* the second call, and every other entry as it was.
C15_RegisterTwice ==
    [][\A s \in SIDs :
           (RegistryRegister(s) /\ s \in DOMAIN registry) =>
               /\ DOMAIN registry' = DOMAIN registry
               /\ Cardinality(DOMAIN registry') = Cardinality(DOMAIN registry)
               /\ registry'[s] = clock
               /\ \A t \in DOMAIN registry \ {s} : registry'[t] = registry[t]]_vars

\* C15 witness: register was called twice, both times for the same id; the
\* registry holds that id once, with the time of the second call.
C15_Witness ==
    /\ clock = 2
    /\ \E s \in SIDs : DOMAIN registry = {s} /\ registry[s] = 1

\* C16 (what the claim states): once the gateway has broadcast the reply
\* to a message the page sent and every event has reached the page, the
\* message list holds an 'ai' message with the text of that reply.
C16_ReplyDisplayed ==
    \A id \in 1..Len(received) :
        (/\ received[id].sid = ClientSid
         /\ Handled(id)
         /\ Len(log[ChatRun(id)]) = 2
         /\ ClientSid \in log[ChatRun(id)][2].to
         /\ inbox = <<>>)
        => \E j \in DOMAIN messages :
               /\ messages[j].sender = "ai"
               /\ messages[j].text = log[ChatRun(id)][2].data.text

\* C17: as long as the hook's socket has had no lifecycle event the status
\* is 'connecting', and afterwards it is the one of the latest event:
\* 'connected' after connect, 'disconnected' after disconnect, 'error'
\* after connect_error.
C17_StatusFollowsLifecycle ==
    /\ (mounted /\ sockets = <<>>) => status = "connecting"
    /\ Live =>
        /\ sockets[socket].last = "none" => status = "connecting"
        /\ sockets[socket].last = "connect" => status = "connected"
        /\ sockets[socket].last = "disconnect" => status = "disconnected"
        /\ sockets[socket].last = "connect_error" => status = "error"

\* C17 witness: the socket connected, then disconnected.
C17_Witness ==
    /\ Live
    /\ sockets[socket].last = "disconnect"
    /\ status = "disconnected"

\* C18: a call of sendMessage emits its event and payload once on the
\* hook's socket when the hook holds a socket and that socket is connected,
\* and leaves every socket as it was otherwise.
C18_EmitIffConnected ==
    [][Len(calls') = Len(calls) + 1 =>
          IF socket # 0 /\ sockets[socket].connected
          THEN sockets' = [sockets EXCEPT ![socket].emitted =
                               Append(@, calls'[Len(calls')])]
          ELSE sockets' = sockets]_vars

\* C18 witness: of two calls one was dropped and one emitted.
C18_Witness ==
    /\ Len(calls) = 2
    /\ socket # 0
    /\ Len(sockets[socket].emitted) = 1
    /\ \A k \in DOMAIN sockets : k # socket => sockets[k].emitted = <<>>

\* C19: when the status of the open page changes to 'disconnected' or
\* 'error', isAiResponding and isAiTyping are false afterwards.
C19_ResetOnConnectionLoss ==
    [][(mounted' /\ status' # status /\ status' \in {"disconnected", "error"})
          => (~isAiResponding' /\ ~isAiTyping')]_vars

\* C19 witness: the connection was lost while the page awaited the reply
\* to a message it had emitted, and the input is enabled again.
C19_Witness ==
    /\ mounted
    /\ status = "disconnected"
    /\ Len(messages) = 1
    /\ messages[1].status = "sending"
    /\ socket # 0
    /\ Len(sockets[socket].emitted) = 1
    /\ ~isAiResponding
    /\ ~isAiTyping

\* C20: a submission appends one message with the submitted text, sender
\* 'user' and status 'sending', and calls sendMessage once, with
\* 'chat_message' and {text}.
C20_SubmitAppendsAndSends ==
    [][\A text \in Typed :
           handleSendMessage(text) =>
               /\ messages' = Append(messages, [text |-> text, sender |-> "user",
                                                status |-> "sending"])
               /\ calls' = Append(calls, [event |-> "chat_message",
                                          message |-> [text |-> text]])]_vars

\* C20 witness: one text was submitted.
C20_Witness ==
    /\ messages = << [text |-> <<"h">>, sender |-> "user", status |-> "sending"] >>
    /\ calls = << [event |-> "chat_message", message |-> [text |-> <<"h">>]] >>

\* What a call of the callback leaves of the list: every message in its
\* place, with its text and its sender.
Kept ==
    /\ Len(messages') >= Len(messages)
    /\ \A j \in DOMAIN messages :
           /\ messages'[j].text = messages[j].text
           /\ messages'[j].sender = messages[j].sender

\* C21: the callback called with a plain string appends one message with
\* that text and sender 'ai'; called with an object that has a text and a
\* sender it appends one message with that text and that sender; the
\* messages before stay in their order.
C21_CallbackAppendsOne ==
    [][\A i \in DOMAIN Msgs :
           capturedOnMessageReceived(Msgs[i]) =>
               LET msg == Msgs[i]
                   last == messages'[Len(messages')]
               IN /\ Has(msg, "str") =>
                         /\ Len(messages') = Len(messages) + 1
                         /\ last = [text |-> msg.str, sender |-> "ai"]
                         /\ Kept
                  /\ (/\ Has(msg, "text") /\ Truthy(msg.text)
                      /\ Has(msg, "sender") /\ TruthyString(msg.sender)) =>
                         /\ Len(messages') = Len(messages) + 1
                         /\ last = [text |-> msg.text, sender |-> msg.sender]
                         /\ Kept]_vars

\* C21 witness: after a message of the user, the callback was called with
\* a string or an assistant's object and then with an object of sender
\* 'user'.
C21_Witness ==
    /\ Len(messages) = 3
    /\ messages[1].sender = "user"
    /\ Has(messages[1], "status")
    /\ messages[2] = [text |-> <<"h">>, sender |-> "ai"]
    /\ messages[3] = [text |-> <<"h", "h">>, sender |-> "user"]

\* C22: with onMessageReceived supplied, every event the socket hands to
\* its onAny listener is forwarded once, as {event, data}: data is the
\* argument of an event with one argument and the array of the arguments
\* of an event with more than one; nothing else is forwarded.
C22_ForwardedOnce ==
    [][/\ (onAny /\ onMessageReceived /\ Len(Head(inbox).args) >= 1) =>
              LET e == Head(inbox)
              IN forwarded' =
                     Append(forwarded,
                            [event |-> e.event,
                             data |-> IF Len(e.args) = 1 THEN e.args[1]
                                      ELSE [items |-> e.args]])
       /\ forwarded' # forwarded => onAny /\ onMessageReceived]_vars

\* C22 witness: an event with one argument and an event with two were
\* forwarded.
C22_Witness ==
    /\ onMessageReceived
    /\ \E i, j \in DOMAIN forwarded :
           /\ forwarded[i] = [event |-> "chat_message",
                              data |-> [text |-> <<"h">>]]
           /\ forwarded[j].event = "multi_arg_event"
           /\ forwarded[j].data =
                  [items |-> << [text |-> <<"h">>], [type |-> "greeting"] >>]

\* C23: unmounting the hook calls disconnect on its socket once, no other
\* socket is touched, and the cleanup leaves socket null and status
\* 'disconnected'; nothing of the hook changes after that.
C23_UnmountDisconnectsOnce ==
    [][/\ (unmount /\ socket # 0) =>
              /\ sockets[socket].disconnects = 0
              /\ sockets'[socket].disconnects = 1
              /\ \A i \in DOMAIN sockets : i # socket => sockets'[i] = sockets[i]
              /\ Len(sockets') = Len(sockets)
              /\ socket' = 0
              /\ status' = "disconnected"
       /\ ~mounted => UNCHANGED <<socket, status, sockets>>]_vars

\* C23 witness: the hook was unmounted while its socket was connected.
C23_Witness ==
    /\ ~mounted
    /\ url = WEBSOCKET_URL
    /\ socket = 0
    /\ status = "disconnected"
    /\ \E i \in DOMAIN sockets :
           /\ sockets[i].url = WEBSOCKET_URL
           /\ sockets[i].disconnects = 1
           /\ sockets[i].last = "disconnect"

\* C24: while the URL is empty or null the hook has no socket and creates
\* none; when the URL changes from empty or null to a URL, one socket is
\* created for that URL and becomes the hook's socket.
C24_SocketOnlyForUrl ==
    /\ []((mounted /\ NoUrl(url)) =>
              /\ socket = 0
              /\ \A i \in DOMAIN sockets : sockets[i].closed)
    /\ [][/\ NoUrl(url') => Len(sockets') = Len(sockets)
          /\ (NoUrl(url) /\ ~NoUrl(url')) =>
                 /\ sockets' = Append(sockets, io(url'))
                 /\ socket' = Len(sockets')]_vars

\* C24 witness: two sockets for the same URL, so the URL went from that
\* URL to empty or null and back.
C24_Witness ==
    /\ mounted
    /\ Len(sockets) = 2
    /\ sockets[1].url = WEBSOCKET_URL
    /\ sockets[2].url = WEBSOCKET_URL
    /\ sockets[1].closed
    /\ socket = 2
    /\ ~sockets[2].closed

\* C25 (as claimed): a chat_message for which an error event was emitted
\* has no new_message broadcast.
C25_ErrorExcludesBroadcast ==
    \A id \in ChatIds :
        Errors(ChatRun(id)) # <<>> => NewMessages(ChatRun(id)) = <<>>

\* C25 (amended): a chat_message for which an error event was emitted has
\* no AI reply broadcast; it has no new_message at all when the error is
\* a validation_error or comes from the broadcast of the user message, and
\* exactly the user message, emitted before the error, when the generator
\* or the broadcast of the reply failed.
C25_ErrorExcludesReply ==
    \A id \in ChatIds :
        LET m == received[id]
            es == log[ChatRun(id)]
            errs == Errors(ChatRun(id))
            news == NewMessages(ChatRun(id))
        IN errs # <<>> =>
               /\ \A i \in DOMAIN news : ~IsAiMessage(news[i])
               /\ Len(news) = IF m.stage \in {"generate", "reply"} THEN 1 ELSE 0
               /\ Len(news) = 1 =>
                      /\ IsUserMessage(es[1], m.sid, m.data.text)
                      /\ Len(es) = 2
                      /\ es[2].event = "error"
               /\ errs[1].data.type = "validation_error" => news = <<>>

\* C25 witness: the generator failed after the user message was
\* broadcast, and the sender was sent the error.
C25_Witness ==
    \E id \in ChatIds :
        /\ Handled(id)
        /\ received[id].stage = "generate"
        /\ Len(log[ChatRun(id)]) = 2
        /\ IsUserMessage(log[ChatRun(id)][1], received[id].sid,
                         received[id].data.text)
        /\ log[ChatRun(id)][2].event = "error"
        /\ log[ChatRun(id)][2].to = {received[id].sid}

\* The messages of the user in the list of the page.
Mine == SelectSeq(messages, LAMBDA m : m.sender = "user")

\* C26: the list of the page holds one message of the user for each
\* submission, in the order of the submissions and with their texts,
\* whatever the gateway has sent, the echo of the submission to its
\* sender included.
C26_SubmittedOnce ==
    /\ Len(Mine) = Len(calls)
    /\ \A i \in DOMAIN calls :
           /\ calls[i].event = "chat_message"
           /\ Mine[i].text = calls[i].message.text

\* C26 witness: the gateway's echo of a submission was handed to the
\* page's callback, and the list holds the submission once.
C26_Witness ==
    /\ Len(calls) = 1
    /\ Len(Mine) = 1
    /\ \E i \in DOMAIN forwarded :
           /\ forwarded[i].event = "new_message"
           /\ forwarded[i].data.is_ai = FALSE
           /\ forwarded[i].data.sender_sid = ClientSid
           /\ forwarded[i].data.text = calls[1].message.text

====
